---- MODULE Spec2Model ----
(***************************************************************************)
(* Model of the AxReg -> RM document ingestion job (src/src/main.ts).      *)
(*                                                                         *)
(* One run of main() connects, lists the procedures, and starts one task   *)
(* per procedure entry (Promise.all).  A task filters the patient's PDFs   *)
(* and takes each eligible PDF through: dedup probe on ZMDIDAXREG, CPF     *)
(* check, local resolution, download, the storage transaction (GAUTOINC    *)
(* reservation + INSERT into SZARQUIVO + COMMIT) and the marker insert     *)
(* into ZMDIDAXREG.  Every await of the source is a step of the model, so  *)
(* tasks interleave exactly at the awaits.  The database outlives the      *)
(* process: after a run has exited (normally or by a crash) a new run      *)
(* starts on the same tables.                                              *)
(***************************************************************************)
EXTENDS Integers, Sequences, FiniteSets, Bags, TLC

\* ------------------------------------------------------------- bounds
MaxProcs == 2        \* procedure entries returned by one listing
MaxPdfs == 2         \* documents in the patient's pdf list
MaxRuns == 2         \* runs of the job against the same database
InitCounter == 1     \* GAUTOINC.VALAUTOINC before the first run
MaxAhead == 1        \* how far MAX(SZARQUIVO.IDARQUIVO) may start ahead of it
MaxFaults == 1       \* failed calls and crashes injected over the runs
Limit == 1           \* page size of the listing (limit = 200 in fetchProcedures)
MaxCalls == 3        \* calls of logProcessingError followed at the file level
Now0 == 30           \* DateTime.now() of the runs, in hours

\* ------------------------------------------------- program constants
WindowHours == 24    \* .minus({ hours: 24 })

NoCreatedAt == -1    \* created_at missing (null / undefined / "")
InvalidDate == -2    \* created_at present but not an ISO date

\* ------------------------------------------------------------ helpers
Max(a, b) == IF a >= b THEN a ELSE b

Range(s) == {s[i] : i \in 1..Len(s)}

SeqsUpTo(S, n) == UNION {[1..k -> S] : k \in 0..n}

VARIABLES
  now,               \* DateTime.now() of this run
  since,             \* lower bound of the window, set by main()
  patient,           \* the remote patient: [cpf, pdf]
  rsPaciente,        \* rows SZPACIENTE/SZATENDIMENTO hold for the patient's cpf
  faults,            \* failed calls and crashes so far
  mainPc,            \* where main() is
  run,               \* number of the current run
  procedures,        \* result of fetchProcedures
  pc,                \* per task: the await the task is at
  matchingPdfs,      \* per task: the filtered, sorted documents
  pdfIdx,            \* per task: position of the for-loop in matchingPdfs
  idArquivo,         \* per task: identifier reserved in the open transaction
  gautoincAntes,     \* per task: counter value read by the reservation
  GAUTOINC,          \* VALAUTOINC of the IDARQUIVO row
  lockHolder,        \* task whose transaction holds the GAUTOINC/SZARQUIVO locks
  SZARQUIVO,         \* committed rows [id, doc] of the storage table
  ZMDIDAXREG,        \* ID_PDF_AXREG of the rows of the dedup table
  totalInseridosZMD,
  totalInseridosSZ,
  totalPulados,
  errorLog,          \* bag of the entries passed to logProcessingError
  zmdAtStart,        \* documents with a marker when the run connected
  szLenAtStart,      \* Len(SZARQUIVO) when the run connected
  pool,              \* the connection pool of the process: "none", "open", "closed"
  patientLookups,    \* per task: GET /patients/:id calls issued for its entry
  fetched,           \* fetchProcedures' array: the entries of the pages read so far
  logger             \* errorLogger.ts: the files of both destinations and its flags

vars == <<now, since, patient, rsPaciente, faults, mainPc, run, procedures, pc, matchingPdfs,
          pdfIdx, idArquivo, gautoincAntes, GAUTOINC, lockHolder, SZARQUIVO,
          ZMDIDAXREG, totalInseridosZMD, totalInseridosSZ, totalPulados,
          errorLog, zmdAtStart, szLenAtStart, pool, patientLookups, fetched, logger>>

taskVars == <<pc, matchingPdfs, pdfIdx, idArquivo, gautoincAntes>>
dbVars == <<GAUTOINC, lockHolder, SZARQUIVO, ZMDIDAXREG>>
counterVars == <<totalInseridosZMD, totalInseridosSZ, totalPulados>>
envVars == <<now, patient, rsPaciente, logger>>
runVars == <<envVars, since, mainPc, run, procedures, zmdAtStart, szLenAtStart, pool, patientLookups,
             fetched>>

Tasks == 1..Len(procedures)

\* ------------------------------------------------------ the documents
DocIds == 1..MaxPdfs
ProcIds == {1, 2}
Types == {"TRANS", "OTHER"}
\* timestamps around both ends of the window, and the two defective ones
Stamps == {NoCreatedAt, InvalidDate,
           Now0 - WindowHours - 1, Now0 - WindowHours, Now0, Now0 + 1}

PatientPdfInfo == [id : DocIds, procedure_id : ProcIds, type : Types, created_at : Stamps]

\* cpf as characters: "d" a digit, "p" punctuation
Cpfs == {<<>>, <<"p">>, <<"d", "p", "d">>}
IsDigit(c) == c = "d"
\* rawCpf.replace(/\D/g, "")
NormalizeCpf(rawCpf) == SelectSeq(rawCpf, IsDigit)

\* ------------------------------------------------- eligibility filter
\* the predicate of matchingPdfs' .filter()
KeepPdf(p, procedureId, sinceT) ==
  IF p.type # "TRANS" THEN FALSE
  ELSE IF p.procedure_id # procedureId THEN FALSE
  ELSE IF p.created_at = NoCreatedAt THEN FALSE
  ELSE IF p.created_at = InvalidDate THEN FALSE   \* NaN >= since is false
  ELSE p.created_at >= sinceT

\* mutant: the missing timestamp is reported before the procedure is compared
LogsNoCreatedAtAnyProcedure(p, procedureId) ==
  /\ p.type = "TRANS"
  /\ p.created_at = NoCreatedAt

\* the filter callback logs NO_CREATED_AT on this path only
LogsNoCreatedAt(p, procedureId) ==
  /\ p.type = "TRANS"
  /\ p.procedure_id = procedureId
  /\ p.created_at = NoCreatedAt

RECURSIVE FilterPdfs(_, _, _)
FilterPdfs(pdfs, procedureId, sinceT) ==
  IF pdfs = <<>> THEN <<>>
  ELSE (IF KeepPdf(Head(pdfs), procedureId, sinceT) THEN <<Head(pdfs)>> ELSE <<>>)
       \o FilterPdfs(Tail(pdfs), procedureId, sinceT)

\* stable insertion of p by created_at
RECURSIVE InsertSorted(_, _)
InsertSorted(p, s) ==
  IF s = <<>> THEN <<p>>
  ELSE IF p.created_at < Head(s).created_at THEN <<p>> \o s
  ELSE <<Head(s)>> \o InsertSorted(p, Tail(s))

\* .sort((a, b) => a.created_at - b.created_at), stable
RECURSIVE SortPdfs(_)
SortPdfs(s) ==
  IF s = <<>> THEN <<>>
  ELSE InsertSorted(s[Len(s)], SortPdfs(SubSeq(s, 1, Len(s) - 1)))

MatchingPdfs(pdfs, procedureId, sinceT) == SortPdfs(FilterPdfs(pdfs, procedureId, sinceT))

\* ------------------------------------------------------------ logging
LogEntry(reason, pdfId, procedureId) ==
  [reason |-> reason, pdfId |-> pdfId, procedureId |-> procedureId]

\* logProcessingError(entry)
logProcessingError(log, reason, pdfId, procedureId) ==
  log (+) SetToBag({LogEntry(reason, pdfId, procedureId)})

RECURSIVE LogNoCreatedAt(_, _, _)
LogNoCreatedAt(log, pdfs, procedureId) ==
  IF pdfs = <<>> THEN log
  ELSE LogNoCreatedAt(
         IF LogsNoCreatedAt(Head(pdfs), procedureId)
         THEN logProcessingError(log, "NO_CREATED_AT", Head(pdfs).id, procedureId)
         ELSE log,
         Tail(pdfs), procedureId)

\* ----------------------------------------------- the logger's files
\* where a write to one destination can throw: fs.mkdirSync of the directory,
\* the CSV header or the JSONL append (nothing appended yet), the CSV append
\* (the JSONL line is already in its file)
WriteOutcomes == {"ok", "mkdir", "jsonl", "csv"}

NoFiles == [jsonl |-> 0, csv |-> 0]

\* records in the two files of a destination after appendBothFormats
appendBothFormats(files, outcome) ==
  CASE outcome = "ok" -> [jsonl |-> files.jsonl + 1, csv |-> files.csv + 1]
    [] outcome = "csv" -> [files EXCEPT !.jsonl = @ + 1]
    [] OTHER -> files

\* appendBothFormats was entered: the destination is announced (once)
Announces(outcome) == outcome # "mkdir"

InitLogger ==
  [primary |-> NoFiles, fallback |-> NoFiles,
   announcedTarget |-> FALSE,
   AXREG_LOGGER_WARNED |-> FALSE,     \* global.__AXREG_LOGGER_WARNED__
   warnings |-> 0,                    \* fallback warnings printed by this process
   calls |-> 0, process |-> 1,
   primaryResult |-> "none", fallbackResult |-> "none", raised |-> FALSE]

\* mutant: the warning is printed on every fallback write
WarnsEveryTime(lg) == TRUE

\* if (!global.__AXREG_LOGGER_WARNED__) console.warn(...)
Warns(lg) == ~lg.AXREG_LOGGER_WARNED

\* the body of logProcessingError with the file system answering `o1` at the
\* primary destination and `o2` at the fallback
LoggerAfter(lg, o1, o2) ==
  LET tried == [lg EXCEPT !.calls = @ + 1,
                          !.primary = appendBothFormats(@, o1),
                          !.announcedTarget = @ \/ Announces(o1),
                          !.primaryResult = o1,
                          !.fallbackResult = "none",
                          !.raised = FALSE]
  IN IF o1 = "ok" THEN tried
     ELSE \* catch (e)
          LET second == [tried EXCEPT !.fallback = appendBothFormats(@, o2),
                                      !.announcedTarget = @ \/ Announces(o2),
                                      !.fallbackResult = o2]
          IN IF o2 = "ok"
             THEN [second EXCEPT !.warnings = IF Warns(lg) THEN @ + 1 ELSE @,
                                 !.AXREG_LOGGER_WARNED = TRUE]
             ELSE \* catch (e2): console.error only
                  second

\* ----------------------------------------------------------- database
Ids(sz) == {sz[i].id : i \in 1..Len(sz)}

\* ISNULL(MAX(IDARQUIVO), 0)
RECURSIVE MaxOf(_)
MaxOf(S) == IF S = {} THEN 0 ELSE LET x == CHOOSE y \in S : TRUE IN Max(x, MaxOf(S \ {x}))
MaxSZ(sz) == MaxOf(Ids(sz))

\* mutant: the stored maximum is not consulted
NextIdCounterOnly(atual, maxSz) == atual + 1

\* mutant: the counter branch hands out the counter's own value
NextIdNoIncrement(atual, maxSz) == IF maxSz >= atual THEN maxSz + 1 ELSE atual

\* CASE WHEN @MaxSZ >= @Atual THEN @MaxSZ + 1 ELSE @Atual + 1 END
NextId(atual, maxSz) == IF maxSz >= atual THEN maxSz + 1 ELSE atual + 1

CountSZ(d) == Cardinality({i \in 1..Len(SZARQUIVO) : SZARQUIVO[i].doc = d})
CountZMD(d) == CopiesIn(d, ZMDIDAXREG)

\* the document the task's for-loop is at
CurPdf(t) == matchingPdfs[t][pdfIdx[t]]

\* ------------------------------------------------------ remote inputs
\* entries of the listing: patient_id 0 is null, patientData FALSE is null
ProcEntries ==
  {e \in [id : ProcIds, patient_id : {0, 1}, patientData : BOOLEAN] :
     e.patient_id = 0 => ~e.patientData}

\* pipeline runs: TRANS documents of procedure 1 inside the window; identifiers
\* are numbered by first occurrence, so <<1, 1>> is the duplicated document
PipelinePdf(i) == [id |-> i, procedure_id |-> 1, type |-> "TRANS", created_at |-> Now0 - 1]

CanonicalIds(k) ==
  {s \in [1..k -> DocIds] : \A i \in 1..k : s[i] <= 1 + MaxOf({s[j] : j \in 1..(i - 1)})}

PipelinePdfLists ==
  UNION {{[i \in 1..k |-> PipelinePdf(ids[i])] : ids \in CanonicalIds(k)} : k \in 1..MaxPdfs}

\* filter runs: any document descriptor at each position of the list
FilterPdfLists ==
  UNION {{s \in [1..k -> PatientPdfInfo] : \A i \in 1..k : s[i].id = i} : k \in 0..MaxPdfs}

\* ------------------------------------------------------- local resolver
CodValues == {"null", " ", "3"}
\* (x ?? "").toString().trim()
TrimCod(x) == IF x \in {"null", "", " "} THEN "" ELSE x

Recordsets == {<<>>} \cup {<<r>> : r \in [CODPACIENTE : CodValues, CODATENDIMENTO : CodValues]}

\* the value buscarPacienteEAtendimento returns for the query's recordset:
\* <<>> for null, <<keys>> otherwise
buscarPacienteEAtendimento(rs) ==
  IF Len(rs) = 0 THEN <<>>
  ELSE LET codPaciente == TrimCod(rs[1].CODPACIENTE)
           codAtendimento == TrimCod(rs[1].CODATENDIMENTO)
       IN IF codPaciente = "" \/ codAtendimento = "" THEN <<>>
          ELSE <<[codPaciente |-> codPaciente, codAtendimento |-> codAtendimento]>>

\* ----------------------------------------------------------- the runs
NoTasks == <<>>

InitDb ==
  /\ GAUTOINC = InitCounter
  /\ SZARQUIVO \in {<<>>} \cup {<<[id |-> InitCounter + a, doc |-> 0]>> : a \in 1..MaxAhead}
  /\ ZMDIDAXREG = EmptyBag
  /\ lockHolder = 0

InitRun ==
  /\ now = Now0
  /\ since = 0
  /\ run = 1
  /\ procedures = <<>>
  /\ pc = NoTasks
  /\ matchingPdfs = NoTasks
  /\ pdfIdx = NoTasks
  /\ idArquivo = NoTasks
  /\ gautoincAntes = NoTasks
  /\ totalInseridosZMD = 0
  /\ totalInseridosSZ = 0
  /\ totalPulados = 0
  /\ errorLog = EmptyBag
  /\ zmdAtStart = {}
  /\ szLenAtStart = 0
  /\ pool = "none"
  /\ patientLookups = NoTasks
  /\ fetched = <<>>

Init ==
  /\ InitDb
  /\ InitRun
  /\ mainPc = "connect"
  /\ patient \in [cpf : Cpfs, pdf : PipelinePdfLists]
  /\ rsPaciente \in Recordsets
  /\ faults = 0
  /\ logger = InitLogger

\* a call fails (or the process dies): one more injected fault
Fault ==
  /\ faults < MaxFaults
  /\ faults' = faults + 1

\* const pool = await db; since = now - 24h
Connect ==
  /\ mainPc = "connect"
  /\ \/ /\ mainPc' = "fetch"
        /\ since' = now - WindowHours
        /\ zmdAtStart' = BagToSet(ZMDIDAXREG)
        /\ szLenAtStart' = Len(SZARQUIVO)
        /\ pool' = "open"
        /\ UNCHANGED faults
     \/ /\ Fault                    \* the pool cannot be opened
        /\ mainPc' = "exited"
        /\ UNCHANGED <<since, zmdAtStart, szLenAtStart, pool>>
  /\ UNCHANGED <<envVars, run, procedures, taskVars, dbVars, counterVars, errorLog, patientLookups,
                 fetched>>

\* the synchronous head of a task, from the patient data to the first probe
FilterStep(log, e) ==
  LET pdfs == MatchingPdfs(patient.pdf, e.id, since)
  IN [pc |-> IF Len(pdfs) = 0 THEN "done" ELSE "probe",
      pdfs |-> pdfs,
      log |-> LogNoCreatedAt(log, patient.pdf, e.id)]

\* the task body up to its first await
StartTask(log, e) ==
  IF e.patient_id = 0 THEN [pc |-> "done", pdfs |-> <<>>, log |-> log]
  ELSE IF e.patientData THEN FilterStep(log, e)
  ELSE [pc |-> "fetchPatient", pdfs |-> <<>>, log |-> log]

\* entries whose enrichment lookup gave no patient data
EnrichFailed(procs) == {t \in 1..Len(procs) : procs[t].patient_id # 0 /\ ~procs[t].patientData}

\* fetchPatient logs PATIENT_FETCH_FAIL for the lookups that failed with an
\* AxiosError; other errors and empty responses give null without a record
PatientFetchFailLog(n) ==
  IF n = 0 THEN EmptyBag ELSE [e \in {LogEntry("PATIENT_FETCH_FAIL", 0, 0)} |-> n]

\* fetchProcedures' enrichment: one GET /patients/:id per entry with a patient_id
EnrichLookups(e) == IF e.patient_id # 0 THEN 1 ELSE 0

\* procedure.patientData ?? (await fetchPatient(...)): the call the task issues
\* when the enrichment left no patient data
StartLookups(e) == IF e.patient_id # 0 /\ ~e.patientData THEN 1 ELSE 0

\* the log after tasks 1..n have each run up to their first await, in order
RECURSIVE StartLog(_, _)
StartLog(procs, n) ==
  IF n = 0 THEN EmptyBag ELSE StartTask(StartLog(procs, n - 1), procs[n]).log

\* the pages GET /v3/procedures can return: at most `limit` entries
Pages == SeqsUpTo(ProcEntries, Limit)

\* data.length === 0, or data.length < limit after the push: the loop breaks
LastPage(data) == Len(data) = 0 \/ Len(data) < Limit

\* One iteration of fetchProcedures' while (true): the page, its enrichment and
\* its report.  On the last page fetchProcedures returns and main starts the
\* tasks (Promise.all(procedures.map(async ...))).  The listing ends: once
\* MaxProcs entries are read the next page is empty.
FetchProcedures ==
  /\ mainPc = "fetch"
  /\ \/ \E data \in Pages, axiosErrors \in 0..Limit :
          /\ Len(fetched) + Len(data) <= MaxProcs
          /\ axiosErrors <= Cardinality(EnrichFailed(data))
          /\ fetched' = fetched \o data
          /\ IF LastPage(data)
             THEN LET procs == fetched \o data
                  IN /\ procedures' = procs
                     /\ mainPc' = "fanout"
                     /\ pc' = [t \in 1..Len(procs) |-> StartTask(EmptyBag, procs[t]).pc]
                     /\ matchingPdfs' = [t \in 1..Len(procs) |-> StartTask(EmptyBag, procs[t]).pdfs]
                     /\ pdfIdx' = [t \in 1..Len(procs) |-> 1]
                     /\ idArquivo' = [t \in 1..Len(procs) |-> 0]
                     /\ gautoincAntes' = [t \in 1..Len(procs) |-> 0]
                     /\ errorLog' = errorLog (+) PatientFetchFailLog(axiosErrors)
                                              (+) StartLog(procs, Len(procs))
                     /\ patientLookups' = [t \in 1..Len(procs) |->
                                             EnrichLookups(procs[t]) + StartLookups(procs[t])]
             ELSE /\ errorLog' = errorLog (+) PatientFetchFailLog(axiosErrors)
                  /\ UNCHANGED <<procedures, mainPc, taskVars, patientLookups>>
          /\ UNCHANGED faults
     \/ /\ Fault                    \* a page or its report throws: main() rejects
        /\ mainPc' = "exited"
        /\ UNCHANGED <<procedures, taskVars, errorLog, patientLookups, fetched>>
  /\ UNCHANGED <<envVars, since, run, zmdAtStart, szLenAtStart, pool, dbVars, counterVars>>

\* procedure.patientData ?? (await fetchPatient(procedure.patient_id))
FetchPatient(t) ==
  /\ mainPc = "fanout"
  /\ pc[t] = "fetchPatient"
  /\ \/ /\ Fault                                      \* null: if (!patient) return
        /\ pc' = [pc EXCEPT ![t] = "done"]
        /\ \E axiosErrors \in 0..1 : errorLog' = errorLog (+) PatientFetchFailLog(axiosErrors)
        /\ UNCHANGED matchingPdfs
     \/ LET r == FilterStep(errorLog, procedures[t])
        IN /\ pc' = [pc EXCEPT ![t] = r.pc]
           /\ matchingPdfs' = [matchingPdfs EXCEPT ![t] = r.pdfs]
           /\ errorLog' = r.log
           /\ UNCHANGED faults
  /\ UNCHANGED <<pdfIdx, idArquivo, gautoincAntes, runVars, dbVars, counterVars>>

\* ------------------------------------------------- per-document steps
\* `continue`: the for-loop moves to the next document, or the task ends
Continue(t) ==
  /\ pc' = [pc EXCEPT ![t] = IF pdfIdx[t] < Len(matchingPdfs[t]) THEN "probe" ELSE "done"]
  /\ pdfIdx' = [pdfIdx EXCEPT ![t] = IF @ < Len(matchingPdfs[t]) THEN @ + 1 ELSE @]
  /\ idArquivo' = [idArquivo EXCEPT ![t] = 0]
  /\ gautoincAntes' = [gautoincAntes EXCEPT ![t] = 0]
  /\ UNCHANGED matchingPdfs

\* mutant: the exception escapes the task and ends its siblings too
ProcFailAbortingAll(t) ==
  /\ Fault
  /\ pc' = [u \in DOMAIN pc |-> "done"]
  /\ errorLog' = logProcessingError(errorLog, "PROC_FAIL", 0, procedures[t].id)
  /\ UNCHANGED <<matchingPdfs, pdfIdx, idArquivo, gautoincAntes>>

\* an exception outside the storage try: the per-procedure catch
ProcFail(t) ==
  /\ Fault
  /\ pc' = [pc EXCEPT ![t] = "done"]
  /\ errorLog' = logProcessingError(errorLog, "PROC_FAIL", 0, procedures[t].id)
  /\ UNCHANGED <<matchingPdfs, pdfIdx, idArquivo, gautoincAntes>>

\* mutant: the probe only reports a document marked more than once
ProbeHitOnSecond(count) == count > 1

\* checkZMD.recordset[0].COUNT > 0
ProbeHit(count) == count > 0

\* 1) dedup probe on ZMDIDAXREG, then the CPF check
ProbeZMD(t) ==
  /\ mainPc = "fanout"
  /\ pc[t] = "probe"
  /\ \/ /\ ProcFail(t)                                  \* the query throws
        /\ UNCHANGED counterVars
     \/ /\ ProbeHit(CountZMD(CurPdf(t).id))
        /\ totalPulados' = totalPulados + 1
        /\ Continue(t)
        /\ UNCHANGED <<totalInseridosZMD, totalInseridosSZ, errorLog, faults>>
     \/ /\ ~ProbeHit(CountZMD(CurPdf(t).id))
        /\ NormalizeCpf(patient.cpf) = <<>>
        /\ errorLog' = logProcessingError(errorLog, "NO_CPF", CurPdf(t).id, procedures[t].id)
        /\ Continue(t)
        /\ UNCHANGED <<counterVars, faults>>
     \/ /\ ~ProbeHit(CountZMD(CurPdf(t).id))
        /\ NormalizeCpf(patient.cpf) # <<>>
        /\ pc' = [pc EXCEPT ![t] = "resolve"]
        /\ UNCHANGED <<matchingPdfs, pdfIdx, idArquivo, gautoincAntes, counterVars, errorLog, faults>>
  /\ UNCHANGED <<runVars, dbVars>>

\* mutant: an identifier is taken from the counter before the resolver's answer
ResolveReserving(t) ==
  /\ mainPc = "fanout"
  /\ pc[t] = "resolve"
  /\ GAUTOINC' = NextId(GAUTOINC, MaxSZ(SZARQUIVO))
  /\ errorLog' = logProcessingError(errorLog, "NO_ATENDIMENTO", CurPdf(t).id, procedures[t].id)
  /\ Continue(t)
  /\ UNCHANGED <<runVars, lockHolder, SZARQUIVO, ZMDIDAXREG, counterVars, faults>>

\* 2) buscarPacienteEAtendimento, then the blank-keys check of main
Resolve(t) ==
  /\ mainPc = "fanout"
  /\ pc[t] = "resolve"
  /\ \/ ProcFail(t)                                     \* the query throws
     \/ /\ UNCHANGED faults
        /\ LET dadosPaciente == buscarPacienteEAtendimento(rsPaciente)
           IN IF dadosPaciente = <<>>
              THEN /\ errorLog' = logProcessingError(errorLog, "NO_ATENDIMENTO",
                                                     CurPdf(t).id, procedures[t].id)
                   /\ Continue(t)
              ELSE IF TrimCod(dadosPaciente[1].codPaciente) = ""
                      \/ TrimCod(dadosPaciente[1].codAtendimento) = ""
              THEN /\ errorLog' = logProcessingError(errorLog, "RM_KEYS_EMPTY",
                                                     CurPdf(t).id, procedures[t].id)
                   /\ Continue(t)
              ELSE /\ pc' = [pc EXCEPT ![t] = "download"]
                   /\ UNCHANGED <<matchingPdfs, pdfIdx, idArquivo, gautoincAntes, errorLog>>
  /\ UNCHANGED <<runVars, dbVars, counterVars>>

\* what the GET /pdfs/:id can do
DownloadOutcomes == {"ok", "empty", "AxiosError", "Error"}

\* the log after fetchPdfAsBase64 and the check of its result in main
DownloadLog(log, outcome, pdfId, procedureId) ==
  LET inFetch == IF outcome = "AxiosError"
                 THEN logProcessingError(log, "DOWNLOAD_FAIL", pdfId, 0)
                 ELSE log
  IN IF outcome = "ok" THEN inFetch
     ELSE logProcessingError(inFetch, "DOWNLOAD_FAIL", pdfId, procedureId)

\* 3) fetchPdfAsBase64
Download(t) ==
  /\ mainPc = "fanout"
  /\ pc[t] = "download"
  /\ \E outcome \in DownloadOutcomes :
       /\ errorLog' = DownloadLog(errorLog, outcome, CurPdf(t).id, procedures[t].id)
       /\ IF outcome = "ok"
          THEN /\ pc' = [pc EXCEPT ![t] = "begin"]
               /\ UNCHANGED <<matchingPdfs, pdfIdx, idArquivo, gautoincAntes, faults>>
          ELSE Fault /\ Continue(t)
  /\ UNCHANGED <<runVars, dbVars, counterVars>>

\* a statement of the storage try throws: control goes to the catch
Throw(t) ==
  /\ Fault
  /\ pc' = [pc EXCEPT ![t] = "catch"]
  /\ UNCHANGED <<matchingPdfs, pdfIdx, idArquivo, gautoincAntes>>

\* 4) await tx.begin()
TxBegin(t) ==
  /\ mainPc = "fanout"
  /\ pc[t] = "begin"
  /\ \/ /\ pc' = [pc EXCEPT ![t] = "reserve"]
        /\ UNCHANGED <<matchingPdfs, pdfIdx, idArquivo, gautoincAntes, faults>>
     \/ Throw(t)
  /\ UNCHANGED <<runVars, dbVars, counterVars, errorLog>>

\* mutant: the bytes are fetched after the reservation, inside the transaction
ReserveThenDownload(t) ==
  /\ mainPc = "fanout"
  /\ pc[t] = "reserve"
  /\ lockHolder = 0
  /\ GAUTOINC' = NextId(GAUTOINC, MaxSZ(SZARQUIVO))
  /\ idArquivo' = [idArquivo EXCEPT ![t] = NextId(GAUTOINC, MaxSZ(SZARQUIVO))]
  /\ gautoincAntes' = [gautoincAntes EXCEPT ![t] = GAUTOINC]
  /\ lockHolder' = t
  /\ pc' = [pc EXCEPT ![t] = "download"]
  /\ UNCHANGED <<matchingPdfs, pdfIdx, SZARQUIVO, ZMDIDAXREG, faults>>
  /\ UNCHANGED <<runVars, counterVars, errorLog>>

\* reservarProximoIdArquivo(tx): the batch runs once the UPDLOCK/HOLDLOCK on the
\* counter row is granted, and the locks stay with the transaction
Reserve(t) ==
  /\ mainPc = "fanout"
  /\ pc[t] = "reserve"
  /\ \/ /\ lockHolder = 0
        /\ LET atual == GAUTOINC
               maxSz == MaxSZ(SZARQUIVO)
               next == NextId(atual, maxSz)
           IN /\ GAUTOINC' = next
              /\ idArquivo' = [idArquivo EXCEPT ![t] = next]
              /\ gautoincAntes' = [gautoincAntes EXCEPT ![t] = atual]
        /\ lockHolder' = t
        /\ pc' = [pc EXCEPT ![t] = "insert"]
        /\ UNCHANGED <<matchingPdfs, pdfIdx, SZARQUIVO, ZMDIDAXREG, faults>>
     \/ /\ Throw(t)                                     \* lock timeout, lost connection
        /\ UNCHANGED dbVars
  /\ UNCHANGED <<runVars, counterVars, errorLog>>

\* INSERT INTO SZARQUIVO inside the transaction
InsertSZ(t) ==
  /\ mainPc = "fanout"
  /\ pc[t] = "insert"
  /\ \/ /\ pc' = [pc EXCEPT ![t] = "commit"]
        /\ UNCHANGED <<matchingPdfs, pdfIdx, idArquivo, gautoincAntes, faults>>
     \/ Throw(t)
  /\ UNCHANGED <<runVars, dbVars, counterVars, errorLog>>

\* the row the open transaction of t has inserted
PendingRow(t) == [id |-> idArquivo[t], doc |-> CurPdf(t).id]

\* mutant: a rejected commit is not noticed and the marker insert follows
CommitUnchecked(t) ==
  /\ mainPc = "fanout"
  /\ pc[t] = "commit"
  /\ \/ /\ SZARQUIVO' = Append(SZARQUIVO, PendingRow(t))
        /\ lockHolder' = 0
        /\ UNCHANGED <<GAUTOINC, faults>>
     \/ /\ Fault
        /\ GAUTOINC' = gautoincAntes[t]
        /\ lockHolder' = 0
        /\ UNCHANGED SZARQUIVO
  /\ pc' = [pc EXCEPT ![t] = "marker"]
  /\ UNCHANGED <<matchingPdfs, pdfIdx, idArquivo, gautoincAntes, ZMDIDAXREG>>
  /\ UNCHANGED <<runVars, counterVars, errorLog>>

\* await tx.commit()
Commit(t) ==
  /\ mainPc = "fanout"
  /\ pc[t] = "commit"
  /\ \/ /\ SZARQUIVO' = Append(SZARQUIVO, PendingRow(t))
        /\ lockHolder' = 0
        /\ pc' = [pc EXCEPT ![t] = "marker"]
        /\ UNCHANGED <<matchingPdfs, pdfIdx, idArquivo, gautoincAntes, GAUTOINC, ZMDIDAXREG, faults>>
     \/ /\ Throw(t)
        /\ UNCHANGED dbVars
  /\ UNCHANGED <<runVars, counterVars, errorLog>>

\* 5) INSERT INTO ZMDIDAXREG after the commit, then the counters
InsertZMD(t) ==
  /\ mainPc = "fanout"
  /\ pc[t] = "marker"
  /\ \/ /\ ZMDIDAXREG' = ZMDIDAXREG (+) SetToBag({CurPdf(t).id})
        /\ totalInseridosZMD' = totalInseridosZMD + 1
        /\ totalInseridosSZ' = totalInseridosSZ + 1
        /\ Continue(t)
        /\ UNCHANGED <<GAUTOINC, lockHolder, SZARQUIVO, totalPulados, faults>>
     \/ /\ Throw(t)
        /\ UNCHANGED <<dbVars, counterVars>>
  /\ UNCHANGED <<runVars, errorLog>>

\* mutant: the reservation is not undone with the transaction
CatchKeepingCounter(t) ==
  /\ mainPc = "fanout"
  /\ pc[t] = "catch"
  /\ IF lockHolder = t
     THEN lockHolder' = 0
     ELSE UNCHANGED lockHolder
  /\ errorLog' = logProcessingError(errorLog, "SQL_FAIL", CurPdf(t).id, procedures[t].id)
  /\ Continue(t)
  /\ UNCHANGED <<runVars, GAUTOINC, SZARQUIVO, ZMDIDAXREG, counterVars, faults>>

\* mutant: the rollback of the catch also undoes a committed insert
CatchUndoingCommit(t) ==
  /\ mainPc = "fanout"
  /\ pc[t] = "catch"
  /\ IF lockHolder = t
     THEN /\ GAUTOINC' = gautoincAntes[t]
          /\ lockHolder' = 0
     ELSE UNCHANGED <<GAUTOINC, lockHolder>>
  /\ SZARQUIVO' = SelectSeq(SZARQUIVO, LAMBDA r : r.id # idArquivo[t])
  /\ errorLog' = logProcessingError(errorLog, "SQL_FAIL", CurPdf(t).id, procedures[t].id)
  /\ Continue(t)
  /\ UNCHANGED <<runVars, ZMDIDAXREG, counterVars, faults>>

\* mutant: the catch logs and goes on without the rollback
CatchLeavingTxOpen(t) ==
  /\ mainPc = "fanout"
  /\ pc[t] = "catch"
  /\ errorLog' = logProcessingError(errorLog, "SQL_FAIL", CurPdf(t).id, procedures[t].id)
  /\ pc' = [pc EXCEPT ![t] = IF pdfIdx[t] < Len(matchingPdfs[t]) THEN "probe" ELSE "done"]
  /\ pdfIdx' = [pdfIdx EXCEPT ![t] = IF @ < Len(matchingPdfs[t]) THEN @ + 1 ELSE @]
  /\ UNCHANGED <<matchingPdfs, idArquivo, gautoincAntes>>
  /\ UNCHANGED <<runVars, dbVars, counterVars, faults>>

\* catch: await tx.rollback() (its own failure swallowed), then SQL_FAIL.
\* An open transaction is undone: the counter row gets back the value it had
\* and the locks go; after a commit there is nothing left to undo.
Catch(t) ==
  /\ mainPc = "fanout"
  /\ pc[t] = "catch"
  /\ IF lockHolder = t
     THEN /\ GAUTOINC' = gautoincAntes[t]
          /\ lockHolder' = 0
     ELSE UNCHANGED <<GAUTOINC, lockHolder>>
  /\ errorLog' = logProcessingError(errorLog, "SQL_FAIL", CurPdf(t).id, procedures[t].id)
  /\ Continue(t)
  /\ UNCHANGED <<runVars, SZARQUIVO, ZMDIDAXREG, counterVars, faults>>

\* ------------------------------------------------------ end of a run
\* Promise.all has resolved: the summary, pool.close(), process.exit(0)
Finish ==
  /\ mainPc = "fanout"
  /\ \A t \in Tasks : pc[t] = "done"
  /\ mainPc' = "exited"
  /\ pool' = "closed"             \* await pool.close(); its rejection is only warned about
  /\ UNCHANGED <<envVars, since, run, procedures, zmdAtStart, szLenAtStart, patientLookups,
                 fetched, taskVars, dbVars, counterVars, errorLog, faults>>

\* the process dies during the fan-out; the server undoes the open transaction
Crash ==
  /\ mainPc = "fanout"
  /\ Fault
  /\ mainPc' = "exited"
  /\ IF lockHolder # 0
     THEN /\ GAUTOINC' = gautoincAntes[lockHolder]
          /\ lockHolder' = 0
     ELSE UNCHANGED <<GAUTOINC, lockHolder>>
  /\ UNCHANGED <<envVars, since, run, procedures, zmdAtStart, szLenAtStart, pool, fetched,
                 patientLookups, taskVars, SZARQUIVO, ZMDIDAXREG, counterVars, errorLog>>

\* the scheduler starts the job again, on the same database and remote state
NextRun ==
  /\ mainPc = "exited"
  /\ run < MaxRuns
  /\ run' = run + 1
  /\ mainPc' = "connect"
  /\ procedures' = <<>>
  /\ pc' = NoTasks
  /\ matchingPdfs' = NoTasks
  /\ pdfIdx' = NoTasks
  /\ idArquivo' = NoTasks
  /\ gautoincAntes' = NoTasks
  /\ totalInseridosZMD' = 0
  /\ totalInseridosSZ' = 0
  /\ totalPulados' = 0
  /\ errorLog' = EmptyBag
  /\ since' = 0
  /\ zmdAtStart' = {}
  /\ szLenAtStart' = 0
  /\ pool' = "none"
  /\ patientLookups' = NoTasks
  /\ fetched' = <<>>
  /\ UNCHANGED <<envVars, dbVars, faults>>

Next ==
  \/ Connect
  \/ FetchProcedures
  \/ \E t \in Tasks : FetchPatient(t)
  \/ \E t \in Tasks : ProbeZMD(t)
  \/ \E t \in Tasks : Resolve(t)
  \/ \E t \in Tasks : Download(t)
  \/ \E t \in Tasks : TxBegin(t)
  \/ \E t \in Tasks : Reserve(t)
  \/ \E t \in Tasks : InsertSZ(t)
  \/ \E t \in Tasks : Commit(t)
  \/ \E t \in Tasks : InsertZMD(t)
  \/ \E t \in Tasks : Catch(t)
  \/ Finish
  \/ Crash
  \/ NextRun

Spec == Init /\ [][Next]_vars

\* ------------------------------------------------- one run that is let run
\* A run whose process is not killed: every call returns or fails, and the
\* event loop resumes every continuation whose call has settled.
NextFair ==
  \/ Connect
  \/ FetchProcedures
  \/ \E t \in Tasks : FetchPatient(t)
  \/ \E t \in Tasks : ProbeZMD(t)
  \/ \E t \in Tasks : Resolve(t)
  \/ \E t \in Tasks : Download(t)
  \/ \E t \in Tasks : TxBegin(t)
  \/ \E t \in Tasks : Reserve(t)
  \/ \E t \in Tasks : InsertSZ(t)
  \/ \E t \in Tasks : Commit(t)
  \/ \E t \in Tasks : InsertZMD(t)
  \/ \E t \in Tasks : Catch(t)
  \/ Finish

Fairness ==
  /\ WF_vars(Connect)
  /\ WF_vars(FetchProcedures)
  /\ WF_vars(\E t \in Tasks : FetchPatient(t))
  /\ WF_vars(\E t \in Tasks : ProbeZMD(t))
  /\ WF_vars(\E t \in Tasks : Resolve(t))
  /\ WF_vars(\E t \in Tasks : Download(t))
  /\ WF_vars(\E t \in Tasks : TxBegin(t))
  /\ WF_vars(\E t \in Tasks : Reserve(t))
  /\ WF_vars(\E t \in Tasks : InsertSZ(t))
  /\ WF_vars(\E t \in Tasks : Commit(t))
  /\ WF_vars(\E t \in Tasks : InsertZMD(t))
  /\ WF_vars(\E t \in Tasks : Catch(t))
  /\ WF_vars(Finish)

SpecFair == Init /\ [][NextFair]_vars /\ Fairness

\* --------------------------------------------- the filter on its own
\* One task of a run that has connected and listed one procedure without
\* patient data; the patient's pdf list is any list of descriptors.
InitFilter ==
  /\ InitDb
  /\ now = Now0
  /\ since = Now0 - WindowHours
  /\ run = 1
  /\ mainPc = "fanout"
  /\ faults = 0
  /\ rsPaciente = <<>>
  /\ logger = InitLogger
  /\ patient \in [cpf : {<<"d", "p", "d">>}, pdf : FilterPdfLists]
  /\ procedures \in {<<[id |-> p, patient_id |-> 1, patientData |-> FALSE]>> : p \in ProcIds}
  /\ pc = <<"fetchPatient">>
  /\ fetched = procedures
  /\ pool = "open"
  /\ patientLookups = <<2>>
  /\ matchingPdfs = <<(<<>>)>>
  /\ pdfIdx = <<1>>
  /\ idArquivo = <<0>>
  /\ gautoincAntes = <<0>>
  /\ totalInseridosZMD = 0
  /\ totalInseridosSZ = 0
  /\ totalPulados = 0
  /\ errorLog = EmptyBag
  /\ zmdAtStart = {}
  /\ szLenAtStart = Len(SZARQUIVO)

NextFilter == \E t \in Tasks : FetchPatient(t)

SpecFilter == InitFilter /\ [][NextFilter]_vars

\* --------------------------------- the storage transactions on their own
\* The tasks of one run, all past the download of the same document and about
\* to open their transactions: 1..MaxProcs transactions against one counter row.
InitTx ==
  /\ InitDb
  /\ now = Now0
  /\ since = Now0 - WindowHours
  /\ run = 1
  /\ mainPc = "fanout"
  /\ faults = 0
  /\ rsPaciente = <<[CODPACIENTE |-> "3", CODATENDIMENTO |-> "3"]>>
  /\ logger = InitLogger
  /\ patient = [cpf |-> <<"d", "p", "d">>, pdf |-> <<PipelinePdf(1)>>]
  /\ \E n \in 1..MaxProcs :
       /\ procedures = [t \in 1..n |-> [id |-> 1, patient_id |-> 1, patientData |-> TRUE]]
       /\ pc = [t \in 1..n |-> "begin"]
       /\ matchingPdfs = [t \in 1..n |-> <<PipelinePdf(1)>>]
       /\ pdfIdx = [t \in 1..n |-> 1]
       /\ idArquivo = [t \in 1..n |-> 0]
       /\ gautoincAntes = [t \in 1..n |-> 0]
       /\ patientLookups = [t \in 1..n |-> 1]
       /\ fetched = procedures
  /\ pool = "open"
  /\ totalInseridosZMD = 0
  /\ totalInseridosSZ = 0
  /\ totalPulados = 0
  /\ errorLog = EmptyBag
  /\ zmdAtStart = {}
  /\ szLenAtStart = Len(SZARQUIVO)

NextTx ==
  \/ \E t \in Tasks : TxBegin(t)
  \/ \E t \in Tasks : Reserve(t)
  \/ \E t \in Tasks : InsertSZ(t)
  \/ \E t \in Tasks : Commit(t)
  \/ \E t \in Tasks : InsertZMD(t)
  \/ \E t \in Tasks : Catch(t)

SpecTx == InitTx /\ [][NextTx]_vars

\* ------------------------------------------ the logger on its own
\* Calls of logProcessingError against a file system that may refuse any write,
\* in a process that may be replaced by a new one (the files stay).
InitLog ==
  /\ InitDb
  /\ InitRun
  /\ mainPc = "connect"
  /\ patient = [cpf |-> <<>>, pdf |-> <<PipelinePdf(1)>>]
  /\ rsPaciente = <<>>
  /\ faults = 0
  /\ logger = InitLogger

OtherVars == <<now, since, patient, rsPaciente, faults, mainPc, run, procedures, taskVars, dbVars,
               counterVars, errorLog, zmdAtStart, szLenAtStart, pool, patientLookups, fetched>>

LogCall ==
  /\ logger.calls < MaxCalls
  /\ \E o1 \in WriteOutcomes :
       \E o2 \in IF o1 = "ok" THEN {"none"} ELSE WriteOutcomes :
         logger' = LoggerAfter(logger, o1, o2)
  /\ UNCHANGED OtherVars

\* process.exit(0) and the next start of the job: module state is fresh
Restart ==
  /\ logger.process < MaxRuns
  /\ logger' = [logger EXCEPT !.process = @ + 1,
                              !.announcedTarget = FALSE,
                              !.AXREG_LOGGER_WARNED = FALSE,
                              !.warnings = 0,
                              !.primaryResult = "none",
                              !.fallbackResult = "none"]
  /\ UNCHANGED OtherVars

NextLog == LogCall \/ Restart

SpecLog == InitLog /\ [][NextLog]_vars

\* -------------------------------------------------------- properties
\* the .filter() callback of task t has run on the whole pdf list
Filtered(t) ==
  /\ procedures[t].patient_id # 0
  /\ pc[t] # "fetchPatient"
  /\ faults = 0

PdfsOf(t) == Range(matchingPdfs[t])
HasStamp(p) == p.created_at \notin {NoCreatedAt, InvalidDate}
Logged(reason, pdfId, procedureId) == BagIn(LogEntry(reason, pdfId, procedureId), errorLog)

RowsOf(sz, d) == {i \in 1..Len(sz) : sz[i].doc = d}
\* rows of document d the current run has committed
RowsThisRun(d) == {i \in RowsOf(SZARQUIVO, d) : i > szLenAtStart}
InTry(t) == pc[t] \in {"begin", "reserve", "insert", "commit", "marker", "catch"}
PastProbe(t) == pc[t] \in {"resolve", "download"} \/ InTry(t)
SameTasks == DOMAIN pc' = DOMAIN pc

\* C1: for every document identifier at most one row of ZMDIDAXREG exists, in
\* every reachable state and for every interleaving of the tasks of a run.
AtMostOneDedupRecord == \A d \in DocIds : CountZMD(d) <= 1

\* C2: a DedupRecord for d exists only if a StorageRecord for d is committed:
\* the marker insert follows the commit, never a rollback.
MarkerImpliesStored == \A d \in DocIds : CountZMD(d) <= CountSZ(d)

MarkerAfterCommitReached == \E d \in DocIds : CountZMD(d) > 0 /\ CountSZ(d) > 0

\* C3: reservations of concurrently running transactions that commit get
\* pairwise distinct identifiers, each strictly greater than every identifier
\* already in storage, also when MAX(IDARQUIVO) starts ahead of the counter; no
\* two rows of SZARQUIVO share an identifier.
ReservedIdsDistinctIncreasing ==
  /\ \A i, j \in 1..Len(SZARQUIVO) : i < j => SZARQUIVO[i].id < SZARQUIVO[j].id
  /\ \A t, u \in Tasks :
       /\ t # u
       /\ pc[t] \in {"insert", "commit", "marker"}
       /\ pc[u] \in {"insert", "commit", "marker"}
       => idArquivo[t] # idArquivo[u]
  /\ \A t \in Tasks :
       pc[t] \in {"insert", "commit"} => \A x \in Ids(SZARQUIVO) : x < idArquivo[t]

\* two transactions that overlapped have both committed, with storage ahead of
\* the counter at the start
ConcurrentReservationsCommitted ==
  /\ Len(SZARQUIVO) >= 3
  /\ SZARQUIVO[1].doc = 0
  /\ SZARQUIVO[1].id > InitCounter
  /\ \E t, u \in Tasks : t # u /\ pc[t] = "marker" /\ pc[u] = "marker"

\* C4: a reservation that reads counter c and stored maximum m returns
\* max(m, c) + 1 and leaves the counter at that value; after a committed
\* reservation the counter is >= every stored identifier and the identifier
\* returned was not in storage.
ReservationIsMaxPlusOne ==
  [][\A t \in DOMAIN pc :
       SameTasks =>
         /\ (pc[t] = "reserve" /\ pc'[t] = "insert") =>
              /\ idArquivo'[t] = Max(MaxSZ(SZARQUIVO), GAUTOINC) + 1
              /\ GAUTOINC' = idArquivo'[t]
              /\ idArquivo'[t] \notin Ids(SZARQUIVO)
         /\ (pc[t] = "commit" /\ pc'[t] = "marker") =>
              /\ idArquivo[t] \notin Ids(SZARQUIVO)
              /\ \A x \in Ids(SZARQUIVO') : GAUTOINC' >= x]_vars

ReservationCommitted ==
  \E t \in Tasks : pc[t] = "marker" /\ GAUTOINC = idArquivo[t] /\ gautoincAntes[t] < MaxSZ(SZARQUIVO)

\* C5: a failure after the reservation and before the commit rolls the
\* transaction back: the counter has the value read before the reservation, no
\* StorageRecord and no DedupRecord is added, and the next reservation returns
\* the same identifier again.
RollbackRestoresCounter ==
  [][\A t \in DOMAIN pc :
       (SameTasks /\ pc[t] = "catch" /\ lockHolder = t /\ pc'[t] # "catch") =>
         /\ GAUTOINC' = gautoincAntes[t]
         /\ SZARQUIVO' = SZARQUIVO
         /\ ZMDIDAXREG' = ZMDIDAXREG
         /\ lockHolder' = 0
         /\ NextId(GAUTOINC', MaxSZ(SZARQUIVO')) = idArquivo[t]]_vars

FailedAfterReservation ==
  \E t \in Tasks : pc[t] = "catch" /\ lockHolder = t /\ idArquivo[t] > 0

\* C6: a run inserts no StorageRecord and no DedupRecord for a document that
\* had a DedupRecord when the run started; such a document never gets past the
\* dedup probe.
MarkedDocumentsSkipped ==
  /\ [](\A t \in Tasks : PastProbe(t) => CurPdf(t).id \notin zmdAtStart)
  /\ [][\A d \in zmdAtStart :
          /\ RowsOf(SZARQUIVO', d) = RowsOf(SZARQUIVO, d)
          /\ CopiesIn(d, ZMDIDAXREG') = CopiesIn(d, ZMDIDAXREG)]_vars

SecondRunSkipped ==
  /\ run = 2
  /\ mainPc = "exited"
  /\ faults = 0
  /\ totalPulados > 0
  /\ \E t \in Tasks : Len(matchingPdfs[t]) > 0 /\ \A i \in 1..Len(matchingPdfs[t]) : matchingPdfs[t][i].id \in zmdAtStart

\* occurrences of document d in the lists the tasks of the run iterate
RECURSIVE Submitted(_, _)
Submitted(d, n) ==
  IF n = 0 THEN 0
  ELSE Submitted(d, n - 1) + Cardinality({i \in 1..Len(matchingPdfs[n]) : matchingPdfs[n][i].id = d})

\* C7: a document identifier submitted twice in one run, in one procedure's
\* list or through two procedure entries, gets exactly one StorageRecord; the
\* other occurrence is skipped by the probe and counted in totalPulados.
DuplicateStoredOnce ==
  \A d \in DocIds :
    (/\ mainPc = "fanout"
     /\ \A t \in Tasks : pc[t] = "done"
     /\ faults = 0
     /\ d \notin zmdAtStart
     /\ NormalizeCpf(patient.cpf) # <<>>
     /\ buscarPacienteEAtendimento(rsPaciente) # <<>>
     /\ Submitted(d, Len(procedures)) >= 2)
    => /\ Cardinality(RowsThisRun(d)) = 1
       /\ totalPulados >= Submitted(d, Len(procedures)) - 1

\* C8: a document with a creation timestamp T is selected iff its type is
\* TRANS, its procedure is the one being processed and now - 24h <= T <= now.
EligibleIffInWindow ==
  \A t \in Tasks :
    Filtered(t) =>
      \A i \in 1..Len(patient.pdf) :
        LET D == patient.pdf[i]
        IN HasStamp(D) =>
             (D \in PdfsOf(t) <=>
                /\ D.type = "TRANS"
                /\ D.procedure_id = procedures[t].id
                /\ now - WindowHours <= D.created_at
                /\ D.created_at <= now)

\* C9 (as stated): every document without a creation timestamp is excluded and
\* gets a NO_CREATED_AT record, whatever its type and procedure.
MissingStampAlwaysLogged ==
  \A t \in Tasks :
    Filtered(t) =>
      \A i \in 1..Len(patient.pdf) :
        LET D == patient.pdf[i]
        IN D.created_at = NoCreatedAt =>
             /\ D \notin PdfsOf(t)
             /\ Logged("NO_CREATED_AT", D.id, procedures[t].id)

\* C9 (amended): a document without a creation timestamp is excluded; it gets a
\* NO_CREATED_AT record exactly when its type is TRANS and its procedure is the
\* one being processed, and is dropped without a record otherwise.
MissingStampLoggedForOwnTrans ==
  \A t \in Tasks :
    Filtered(t) =>
      \A i \in 1..Len(patient.pdf) :
        LET D == patient.pdf[i]
        IN D.created_at = NoCreatedAt =>
             /\ D \notin PdfsOf(t)
             /\ Logged("NO_CREATED_AT", D.id, procedures[t].id)
                  <=> (D.type = "TRANS" /\ D.procedure_id = procedures[t].id)

MissingStampLogged ==
  \E t \in Tasks :
    /\ Filtered(t)
    /\ \E i \in 1..Len(patient.pdf) :
         /\ patient.pdf[i].created_at = NoCreatedAt
         /\ Logged("NO_CREATED_AT", patient.pdf[i].id, procedures[t].id)
    /\ \E i \in 1..Len(patient.pdf) :
         /\ patient.pdf[i].created_at = NoCreatedAt
         /\ patient.pdf[i].type = "OTHER"

\* C10: when the marker insert fails, or the process dies, after the commit,
\* the committed StorageRecord stays and that attempt adds no DedupRecord; rows
\* of SZARQUIVO are never removed, and a document without a DedupRecord is not
\* skipped by the probe, so a later run stores it again.
StoredWithoutMarkedStays ==
  [][/\ \A t \in DOMAIN pc :
          (SameTasks /\ pc[t] = "catch" /\ idArquivo[t] # 0 /\ lockHolder # t /\ pc'[t] # "catch") =>
            /\ PendingRow(t) \in Range(SZARQUIVO')
            /\ ZMDIDAXREG' = ZMDIDAXREG
     /\ (mainPc = "fanout" /\ mainPc' = "exited") =>
          /\ SZARQUIVO' = SZARQUIVO
          /\ ZMDIDAXREG' = ZMDIDAXREG
     /\ Len(SZARQUIVO') >= Len(SZARQUIVO)
     /\ SubSeq(SZARQUIVO', 1, Len(SZARQUIVO)) = SZARQUIVO
     /\ \A t \in DOMAIN pc :
          (/\ SameTasks
           /\ pc[t] = "probe"
           /\ CountZMD(CurPdf(t).id) = 0
           /\ (pc'[t] # "probe" \/ pdfIdx'[t] # pdfIdx[t])) =>
            totalPulados' = totalPulados]_vars

\* a document stored once and unmarked when run 2 started now has a second
\* StorageRecord and one DedupRecord
ReingestedAfterLostMarker ==
  \E d \in DocIds :
    /\ run = 2
    /\ d \notin zmdAtStart
    /\ Cardinality(RowsOf(SZARQUIVO, d) \ RowsThisRun(d)) = 1
    /\ Cardinality(RowsThisRun(d)) = 1
    /\ CountZMD(d) = 1

\* task t takes the step
StepOf(t) == pc'[t] # pc[t] \/ pdfIdx'[t] # pdfIdx[t]
\* the step of t is a call that threw
Threw == faults' > faults
ProcFailEntry(t) == LogEntry("PROC_FAIL", 0, procedures[t].id)
AllDone == mainPc = "fanout" /\ \A t \in Tasks : pc[t] = "done"
Iterated(t) == matchingPdfs[t] = <<>> \/ pdfIdx[t] = Len(matchingPdfs[t])

\* C11: an exception of the probe or resolver query of one task is caught in
\* that task: it adds exactly one PROC_FAIL record, ends that task only, and
\* leaves every sibling task and the run where they were; only such a failure
\* makes a task abandon documents, so a finished run has iterated every
\* document of every task that logged no PROC_FAIL.
FailureIsolatedPerTask ==
  /\ [](AllDone => \A t \in Tasks : Iterated(t) \/ BagIn(ProcFailEntry(t), errorLog))
  /\ [][\A t \in DOMAIN pc :
          (SameTasks /\ StepOf(t)) =>
            /\ mainPc' = mainPc
            /\ \A u \in DOMAIN pc \ {t} :
                 /\ pc'[u] = pc[u]
                 /\ pdfIdx'[u] = pdfIdx[u]
                 /\ matchingPdfs'[u] = matchingPdfs[u]
            /\ (pc[t] \in {"probe", "resolve"} /\ Threw) =>
                 /\ pc'[t] = "done"
                 /\ errorLog' = errorLog (+) SetToBag({ProcFailEntry(t)})
                 /\ <<GAUTOINC, lockHolder, SZARQUIVO, ZMDIDAXREG>>' = dbVars
            /\ (pc'[t] = "done" /\ ~Iterated(t)) =>
                 /\ pc[t] \in {"probe", "resolve"}
                 /\ Threw]_vars

\* one task failed on its first document and abandoned the second, while its
\* sibling went through both of its documents and stored one
SiblingFinishedAfterProcFail ==
  /\ AllDone
  /\ \E t, u \in Tasks :
       /\ t # u
       /\ ~Iterated(t)
       /\ BagIn(ProcFailEntry(t), errorLog)
       /\ Len(matchingPdfs[u]) = 2
       /\ Iterated(u)
       /\ totalInseridosSZ > 0

\* C12: once the pool is open no failed call ends the run: a rejected listing
\* (or enrichment, or report) leaves main() running, and a call that throws in
\* a task leaves main() in the fan-out.
OnlyPoolFailureAborts ==
  [][/\ (mainPc = "fetch" /\ pool = "open") => mainPc' # "exited"
     /\ \A t \in DOMAIN pc : (SameTasks /\ StepOf(t) /\ Threw) => mainPc' = "fanout"]_vars

\* C20: a run that opened the pool closes it exactly once before the process
\* exits, on normal completion and when it stops on an error raised after the
\* pool was opened.
PoolReleasedOnce ==
  [][/\ (mainPc = "fetch" /\ mainPc' = "exited") => pool' = "closed"
     /\ (mainPc = "fanout" /\ mainPc' = "exited" /\ ~Threw) => (pool = "open" /\ pool' = "closed")
     /\ (pool' = "closed" /\ pool # "closed") => pool = "open"
     /\ pool = "closed" => pool' \in {"closed", "none"}]_vars

\* records of the log that carry document d
RecordsOf(log, d) ==
  BagCardinality([e \in {x \in BagToSet(log) : x.pdfId = d} |-> CopiesIn(e, log)])

\* the step of t rejects its current document at the step the task is at
Rejects(t) ==
  /\ SameTasks
  /\ StepOf(t)
  /\ \/ pc[t] = "probe" /\ ~Threw /\ totalPulados' = totalPulados /\ pc'[t] # "resolve"
     \/ pc[t] = "resolve" /\ ~Threw /\ pc'[t] # "download"
     \/ pc[t] = "download" /\ pc'[t] # "begin"
     \/ pc[t] = "catch"

ReasonAt(step) ==
  CASE step = "probe" -> "NO_CPF"
    [] step = "resolve" -> "NO_ATENDIMENTO"
    [] step = "download" -> "DOWNLOAD_FAIL"
    [] step = "catch" -> "SQL_FAIL"

\* C13: a document rejected at one step (missing CPF, no local match, download
\* failure, storage failure) gets exactly one error record in that step, with
\* that step's reason code; a failed download gets one record, not two.
OneRecordPerRejection ==
  [][\A t \in DOMAIN pc :
       Rejects(t) =>
         LET d == CurPdf(t).id
             entry == LogEntry(ReasonAt(pc[t]), d, procedures[t].id)
         IN /\ RecordsOf(errorLog', d) = RecordsOf(errorLog, d) + 1
            /\ CopiesIn(entry, errorLog') = CopiesIn(entry, errorLog) + 1]_vars

\* C14: every procedure entry skipped for having no patient identifier has an
\* error record of its own in the log of the run.
MissingPatientIdLogged ==
  \A t \in Tasks :
    procedures[t].patient_id = 0 =>
      \E e \in BagToSet(errorLog) :
        /\ e.procedureId = procedures[t].id
        /\ e.pdfId = 0
        /\ e.reason # "PROC_FAIL"

\* the await task t is at is an HTTP call to the remote service
AtHttpCall(t) == pc[t] \in {"fetchPatient", "download"}

\* C15: a task makes no HTTP call while its storage transaction is open: the
\* download is over before tx.begin, between tx.begin and the commit or the
\* rollback the task only runs the reservation and the INSERT, and the task
\* holding the counter-row and storage-table locks is never at an HTTP call.
NoHttpInsideTx ==
  /\ [](\A t \in Tasks :
         /\ lockHolder = t => pc[t] \in {"insert", "commit", "catch"}
         /\ AtHttpCall(t) => (lockHolder # t /\ idArquivo[t] = 0))
  /\ [][\A t \in DOMAIN pc :
          (SameTasks /\ StepOf(t)) =>
            /\ pc'[t] = "begin" => pc[t] = "download"
            /\ pc[t] = "begin" => pc'[t] \in {"reserve", "catch"}
            /\ pc[t] = "reserve" => pc'[t] \in {"insert", "catch"}
            /\ pc[t] = "insert" => pc'[t] \in {"commit", "catch"}
            /\ pc[t] = "commit" => pc'[t] \in {"marker", "catch"}
            /\ lockHolder' = t => ~AtHttpCall(t)']_vars

\* a task that downloaded its document holds the locks, about to commit
LocksHeldAfterDownload ==
  \E t \in Tasks : pc[t] = "commit" /\ lockHolder = t /\ idArquivo[t] > 0

\* C16: whenever SQL_FAIL is logged for a document, the transaction of that
\* attempt was rolled back and no StorageRecord of the attempt is committed,
\* also when the exception came from the marker insert after the commit.
SqlFailMeansRolledBack ==
  [][\A t \in DOMAIN pc :
       (/\ SameTasks
        /\ pc[t] = "catch"
        /\ StepOf(t)
        /\ CopiesIn(LogEntry("SQL_FAIL", CurPdf(t).id, procedures[t].id), errorLog')
             > CopiesIn(LogEntry("SQL_FAIL", CurPdf(t).id, procedures[t].id), errorLog))
       => /\ PendingRow(t) \notin Range(SZARQUIVO')
          /\ lockHolder' # t]_vars

\* C17: when the tasks of a run have all ended, totalInseridosSZ is the number
\* of rows the run committed to SZARQUIVO; totalInseridosZMD moves with the
\* rows of ZMDIDAXREG and totalPulados with the hits of the dedup probe, step
\* by step and for every interleaving of the tasks.
CountersMatchRows ==
  /\ [](AllDone => totalInseridosSZ = Len(SZARQUIVO) - szLenAtStart)
  /\ [][\A t \in DOMAIN pc :
          (SameTasks /\ StepOf(t)) =>
            /\ totalInseridosZMD' - totalInseridosZMD
                 = BagCardinality(ZMDIDAXREG') - BagCardinality(ZMDIDAXREG)
            /\ totalPulados' - totalPulados
                 = IF pc[t] = "probe" /\ ~Threw /\ CountZMD(CurPdf(t).id) > 0 THEN 1 ELSE 0]_vars

\* the resolver's query found a row whose patient or encounter key is blank
RowWithBlankKey ==
  /\ rsPaciente # <<>>
  /\ \/ TrimCod(rsPaciente[1].CODPACIENTE) = ""
     \/ TrimCod(rsPaciente[1].CODATENDIMENTO) = ""

\* C18: when the resolver finds a row with a blank patient or encounter key
\* the document is skipped with an RM_KEYS_EMPTY record; NO_ATENDIMENTO is the
\* record of the case where no row is found.
BlankKeysLoggedAsKeysEmpty ==
  [][\A t \in DOMAIN pc :
       (SameTasks /\ pc[t] = "resolve" /\ StepOf(t) /\ ~Threw) =>
         LET keysEmpty == LogEntry("RM_KEYS_EMPTY", CurPdf(t).id, procedures[t].id)
             noMatch == LogEntry("NO_ATENDIMENTO", CurPdf(t).id, procedures[t].id)
         IN /\ RowWithBlankKey =>
                 /\ pc'[t] # "download"
                 /\ errorLog' = errorLog (+) SetToBag({keysEmpty})
            /\ rsPaciente = <<>> =>
                 /\ pc'[t] # "download"
                 /\ errorLog' = errorLog (+) SetToBag({noMatch})]_vars

\* C19: in one run the patient lookup of a procedure entry is issued at most
\* once; an entry whose lookup failed is not looked up a second time.
PatientLookedUpOnce == \A t \in Tasks : patientLookups[t] <= 1

BeforeTx(t) == pc[t] \in {"probe", "resolve", "download"}

\* C21: the dedup probe, the CPF normalisation, the local resolution and the
\* download leave GAUTOINC, SZARQUIVO and ZMDIDAXREG as they were; a task at
\* one of these steps has no transaction open and no identifier reserved, and
\* a document that stops there ends with none.
StopBeforeTxLeavesDbUnchanged ==
  /\ [](\A t \in Tasks :
         BeforeTx(t) => (idArquivo[t] = 0 /\ gautoincAntes[t] = 0 /\ lockHolder # t))
  /\ [][\A t \in DOMAIN pc :
          (SameTasks /\ StepOf(t) /\ BeforeTx(t)) =>
            /\ GAUTOINC' = GAUTOINC
            /\ SZARQUIVO' = SZARQUIVO
            /\ ZMDIDAXREG' = ZMDIDAXREG
            /\ lockHolder' = lockHolder
            /\ idArquivo'[t] = 0
            /\ pc'[t] \in {"probe", "resolve", "download", "begin", "done"}]_vars

\* a first run ended with a document rejected before the transaction and the
\* three tables as they were at its start
StoppedBeforeTxReached ==
  /\ run = 1
  /\ AllDone
  /\ \E t \in Tasks : Len(matchingPdfs[t]) = 2
  /\ \E e \in BagToSet(errorLog) : e.reason \in {"NO_CPF", "NO_ATENDIMENTO", "DOWNLOAD_FAIL"}
  /\ GAUTOINC = InitCounter
  /\ Len(SZARQUIVO) = szLenAtStart
  /\ ZMDIDAXREG = EmptyBag

\* the step of t ends its work on the current document
LeavesDocument(t) ==
  /\ SameTasks
  /\ pc[t] \notin {"fetchPatient", "done"}
  /\ pdfIdx'[t] # pdfIdx[t] \/ pc'[t] = "done"

One(b) == IF b THEN 1 ELSE 0

\* the terminal outcomes of the document t is at, read off the step that ends it
SkippedDuplicate(t) == pc[t] = "probe" /\ totalPulados' = totalPulados + 1
Stored(t) == PendingRow(t) \in Range(SZARQUIVO')
Marked(t) ==
  /\ pc[t] = "marker"
  /\ Stored(t)
  /\ CopiesIn(CurPdf(t).id, ZMDIDAXREG') = CopiesIn(CurPdf(t).id, ZMDIDAXREG) + 1
StoredWithoutMarked(t) ==
  /\ pc[t] = "catch"
  /\ Stored(t)
  /\ ZMDIDAXREG' = ZMDIDAXREG
FailedWithReason(t) ==
  /\ ~Stored(t)
  /\ RecordsOf(errorLog', CurPdf(t).id) > RecordsOf(errorLog, CurPdf(t).id)
AbandonedByProcFail(t) ==
  CopiesIn(ProcFailEntry(t), errorLog') = CopiesIn(ProcFailEntry(t), errorLog) + 1

\* C22: every run that is let run terminates; when it has, no task is left in
\* the middle of a document, no transaction is open and no identifier is held,
\* and every document a task left ended in exactly one of: skipped as
\* duplicate, failed with a reason, marked, stored without marker, abandoned
\* by the procedure's failure (with the documents after it).
RunTerminatesWithOutcomes ==
  /\ <>(mainPc = "exited")
  /\ [](mainPc = "exited" =>
          /\ lockHolder = 0
          /\ \A t \in Tasks :
               /\ pc[t] = "done"
               /\ idArquivo[t] = 0
               /\ Iterated(t) \/ BagIn(ProcFailEntry(t), errorLog))
  /\ [][\A t \in DOMAIN pc :
          LeavesDocument(t) =>
            One(SkippedDuplicate(t)) + One(FailedWithReason(t)) + One(Marked(t))
              + One(StoredWithoutMarked(t)) + One(AbandonedByProcFail(t)) = 1]_vars

\* a finished run in which one document was stored and marked, and another was
\* skipped as a duplicate or failed
TerminatedWithMixedOutcomes ==
  /\ mainPc = "exited"
  /\ pool = "closed"
  /\ totalInseridosZMD > 0
  /\ totalPulados > 0 \/ errorLog # EmptyBag
  /\ \E t \in Tasks : Len(matchingPdfs[t]) = 2

\* the step is a call of logProcessingError
Called == logger'.calls = logger.calls + 1
PrimaryFailed == logger'.primaryResult \notin {"ok", "none"}
InFallback ==
  /\ logger'.fallback.jsonl = logger.fallback.jsonl + 1
  /\ logger'.fallback.csv = logger.fallback.csv + 1

====
